---- MODULE Spec2Model ----
(***************************************************************************)
(* A model of cmepy's adaptive truncated-domain (FSP) solver.              *)
(*                                                                         *)
(*   Spec / FairSpec : FspSolver.step of src/cmepy/fsp/solver.py, driving  *)
(*                     the restorable integrator and the domain expander.  *)
(*   SpecMap         : StateIndexMap of src/fsp.py.                        *)
(*   SpecFlux        : create_flux_matrices of src/fsp.py.                 *)
(*   SpecDiffEqs     : create_diff_eqs of src/fsp.py on built matrices.    *)
(*   SpecCompress    : compress of src/cmepy/statistics.py.                *)
(*   SpecCreate      : create of src/cmepy/solver.py, up to its checks.    *)
(*                                                                         *)
(* Probability is counted in whole units (Mass units in total), so that    *)
(* sums and comparisons are exact.  Dense vectors and index maps are       *)
(* functions over 0..n-1, as the numpy arrays of the source are.           *)
(***************************************************************************)
EXTENDS Integers, Sequences, FiniteSets, TLC

\* ------------------------------------------------------------------ bounds
MaxState == 2   \* the count axis of the controller's model holds 0..MaxState
Mass == 2       \* units of probability in the initial distribution
MaxEps == 1     \* a call's budget epsilon is drawn from 0..MaxEps units
MaxTime == 2    \* target times are drawn from 1..MaxTime
MaxCount == 3   \* the per-call operation counters saturate here
MaxLen == 3     \* a StateIndexMap is built from at most MaxLen states
MaxOrigin == 1  \* an explicit origin is drawn from 0..MaxOrigin
MaxBatch == 2   \* a batch handed to a vectorised transform holds at most MaxBatch entries

VARIABLES
    \* FspSolver (src/cmepy/fsp/solver.py)
    domain_states,        \* self.domain_states: the set of states of the domain
    domain_enum,          \* self.domain_enum: the StateEnum of domain_states
    pc,                   \* position of the caller / of step's loop
    t,                    \* step's argument t
    epsilon,              \* step's argument epsilon
    step_epsilon,         \* step's local step_epsilon
    number_of_states,     \* step's local number_of_states
    \* the restorable integrator self.solver
    solver_p,             \* self.solver.y[0]: dense p over the integrator's enum
    solver_sink,          \* self.solver.y[1]: p_sink
    solver_t,             \* self.solver.t
    restore_point_error,  \* self.solver.restore_point_error
    restore_args,         \* self.solver.restore_args
    \* history of the current call (observation only)
    rpe_at_call,          \* restore_point_error when the call started
    domain_at_call,       \* domain_states when the call started
    replaced_states,      \* the domain the call's latest expansion replaced
    n_step,               \* integrator steps of this call
    n_expand,             \* expander invocations of this call
    n_restore,            \* integrator restores of this call
    n_set_rp,             \* set_restore_point calls of this call
    eps_sum,              \* sum of the budgets of the calls that returned
    \* StateIndexMap (src/fsp.py)
    sim,                  \* the StateIndexMap object, or NoMap before __init__
    q_kind,               \* the vectorised transform called last
    q_batch,              \* its argument
    q_result,             \* what it returned, or the error it raised
    \* create_flux_matrices and create_diff_eqs (src/fsp.py)
    flux_pc,              \* "input", then "built", then "applied"
    model,                \* the model: its propensities and offset_vectors
    state_index_map,      \* the StateIndexMap of the domain
    error_trackers,       \* the (error_projection, error_index_map) pairs
    flux_matrices,        \* what create_flux_matrices returned or raised
    propensity_calls,     \* per reaction reached: the states its propensity was given
    time_dependencies,    \* create_diff_eqs's argument time_dependencies
    de_t,                 \* diff_eqs's argument t
    de_p,                 \* diff_eqs's argument p
    p_dot,                \* what diff_eqs returned
    \* compress (src/cmepy/statistics.py)
    cmp_pc,               \* "input", then "done"
    cmp_p,                \* compress's argument p
    cmp_epsilon,          \* compress's argument epsilon
    p_compressed,         \* what compress returned or raised
    \* create (src/cmepy/solver.py)
    crt_pc,               \* "input", then "done"
    crt_model,            \* create's argument model: its 'shape' and 'initial_state'
    crt_sink,             \* create's argument sink
    crt_p_0,              \* create's argument p_0
    crt_domain_states,    \* create's argument domain_states
    cme_solver            \* what create returned or raised

fspVars == <<domain_states, domain_enum, pc, t, epsilon, step_epsilon,
             number_of_states, solver_p, solver_sink, solver_t,
             restore_point_error, restore_args, rpe_at_call, domain_at_call,
             replaced_states, n_step, n_expand, n_restore, n_set_rp, eps_sum>>

mapVars == <<sim, q_kind, q_batch, q_result>>

fluxVars == <<flux_pc, model, state_index_map, error_trackers, flux_matrices,
              propensity_calls, time_dependencies, de_t, de_p, p_dot>>

compressVars == <<cmp_pc, cmp_p, cmp_epsilon, p_compressed>>

createVars == <<crt_pc, crt_model, crt_sink, crt_p_0, crt_domain_states, cme_solver>>

\* what an operation of one component leaves alone: the other components
nonFspVars == <<mapVars, fluxVars, compressVars, createVars>>
nonMapVars == <<fspVars, fluxVars, compressVars, createVars>>
nonFluxVars == <<fspVars, mapVars, compressVars, createVars>>
nonCompressVars == <<fspVars, mapVars, fluxVars, createVars>>
nonCreateVars == <<fspVars, mapVars, fluxVars, compressVars>>

vars == <<fspVars, mapVars, fluxVars, compressVars, createVars>>

\* ----------------------------------------------------------------- helpers
States == 0..MaxState

Min(a, b) == IF a <= b THEN a ELSE b

\* a counter that saturates at MaxCount
Bump(n) == Min(n + 1, MaxCount)

RECURSIVE SumTo(_, _)
\* f[0] + ... + f[n-1]
SumTo(f, n) == IF n = 0 THEN 0 ELSE f[n - 1] + SumTo(f, n - 1)

\* len(p) of a dense vector
Size(p) == Cardinality(DOMAIN p)

\* numpy.sum(p)
Total(p) == SumTo(p, Size(p))

\* ------------------------------------------------- cmepy.state_enum.StateEnum
\* The enumeration of a set of distinct states: index i is given to the state
\* with exactly i smaller states.
StateEnum(states) ==
    [size |-> Cardinality(states),
     ordered_states |->
        [i \in 0..(Cardinality(states) - 1) |->
            CHOOSE s \in states : Cardinality({r \in states : r < s}) = i]]

\* StateEnum.states(indices), for one index
EnumState(enum, i) == enum.ordered_states[i]

\* StateEnum.indices(states), for one state of the enumeration
EnumIndex(enum, s) == CHOOSE i \in 0..(enum.size - 1) : enum.ordered_states[i] = s

EnumHas(enum, s) == \E i \in 0..(enum.size - 1) : enum.ordered_states[i] = s

\* ------------------------------------------------------ FspSolver.step pieces
\* line 89: step_epsilon = self.solver.restore_point_error + epsilon
\* (faulty variant: the carried error is counted twice)
StepEpsilonDoubled(eps) == 2 * restore_point_error + eps

StepEpsilon(eps) == restore_point_error + eps

\* line 96: if p_sink > step_epsilon
\* (faulty variants: one unit too lax; >= for >)
OverBudgetLax(p_sink, threshold) == p_sink > threshold + 1

OverBudgetStrict(p_sink, threshold) == p_sink >= threshold

OverBudget(p_sink, threshold) == p_sink > threshold

\* lines 110-112: the states p_0 is defined over, by index of the restore enum
P0Domain(p_0, enum) == [i \in 0..(Size(p_0) - 1) |-> EnumState(enum, i)]

\* line 117: the index of each of those states in the expanded enum
\* (faulty variant: the old index is kept instead of looking the state up)
DomainIndicesByPosition(expanded_enum, p_0_domain) ==
    [i \in DOMAIN p_0_domain |-> i]

DomainIndices(expanded_enum, p_0_domain) ==
    [i \in DOMAIN p_0_domain |-> EnumIndex(expanded_enum, p_0_domain[i])]

\* lines 119-125: zeros of the expanded size, then expanded_p_0[domain_indices] = p_0
ExpandedP0(p_0, domain_indices, size) ==
    [j \in 0..(size - 1) |->
        IF \E i \in DOMAIN domain_indices : domain_indices[i] = j
        THEN LET last == CHOOSE i \in DOMAIN domain_indices :
                            /\ domain_indices[i] = j
                            /\ \A k \in DOMAIN domain_indices :
                                  domain_indices[k] = j => k <= i
             IN p_0[last]
        ELSE 0]

\* lines 108-125 together, for the expanded domain the expander returned
\* (faulty variant: the failed step's solution p is remapped, not p_0)
RemappedPostStepP(expanded_states) ==
    LET p_0 == solver_p
        p_0_domain == P0Domain(p_0, restore_args.domain_enum)
        expanded_enum == StateEnum(expanded_states)
        domain_indices == DomainIndices(expanded_enum, p_0_domain)
    IN ExpandedP0(p_0, domain_indices, expanded_enum.size)

RemappedP0(expanded_states) ==
    LET p_0 == restore_args.p_0
        p_0_domain == P0Domain(p_0, restore_args.domain_enum)
        expanded_enum == StateEnum(expanded_states)
        domain_indices == DomainIndices(expanded_enum, p_0_domain)
    IN ExpandedP0(p_0, domain_indices, expanded_enum.size)

\* ------------------------------------------------- the restorable integrator
\* What one integrator step may leave in y: the mass of y is conserved, it moves
\* among the domain states and into the sink, and the sink never gives mass back.
StepOutcomes(p, p_sink) ==
    {y \in [0..(Size(p) - 1) -> 0..Mass] \X (p_sink..Mass) :
        Total(y[1]) + y[2] = Total(p) + p_sink}

\* set_restore_point(): y and t become the restore point (the domain stays),
\* and the sink mass of y becomes the restore point's error
AfterSetRestorePoint ==
    [restore_args |-> [restore_args EXCEPT !.p_0 = solver_p, !.t_0 = solver_t],
     restore_point_error |-> solver_sink]

\* restore(domain_states, domain_enum, p_0): the arguments replace those of the
\* restore point and the integrator starts again from it, at its time and with
\* its error in the sink
AfterRestore(new_states, new_enum, new_p_0) ==
    [restore_args |-> [restore_args EXCEPT !.domain_states = new_states,
                                           !.domain_enum = new_enum,
                                           !.p_0 = new_p_0],
     y |-> <<new_p_0, restore_point_error>>,
     t |-> restore_args.t_0]

\* domain_expander.expand(...): what the expander may return for a domain. Its
\* contract is a domain holding every state of the one it was given; whether
\* it is larger is what step checks.
Expansions(states) == {e \in SUBSET States : states \subseteq e}

\* what an expander that breaks that contract may return: a domain that lacks
\* a state of the one it was given (a window that moves, a domain that shrinks)
Replacements(states) == {e \in SUBSET States : e # {} /\ ~(states \subseteq e)}

\* ---------------------------------------------------------------------- Init
\* A solver as create() builds it: a rectangular domain 0..k, any initial
\* distribution on it, nothing in the sink, the restore point at the start.
InitFsp ==
    /\ domain_states \in {0..k : k \in States}
    /\ domain_enum = StateEnum(domain_states)
    /\ pc = "ready"
    /\ t = 0
    /\ epsilon = 0
    /\ step_epsilon = 0
    /\ number_of_states = 0
    /\ solver_p \in {p \in [0..(Cardinality(domain_states) - 1) -> 0..Mass] :
                        Total(p) = Mass}
    /\ solver_sink = 0
    /\ solver_t = 0
    /\ restore_point_error = 0
    /\ restore_args = [p_0 |-> solver_p, domain_enum |-> domain_enum,
                       domain_states |-> domain_states, t_0 |-> 0]
    /\ rpe_at_call = 0
    /\ domain_at_call = domain_states
    /\ replaced_states = domain_states
    /\ n_step = 0
    /\ n_expand = 0
    /\ n_restore = 0
    /\ n_set_rp = 0
    /\ eps_sum = 0

\* ------------------------------------------------------------------- actions
\* FspSolver.step(t, epsilon) is entered: lines 89-90. A solve is followed
\* past a raise as long as the bookkeeping names the integrator's domain.
Call ==
    /\ pc \in {"ready", "returned", "raised"}
    /\ domain_states = restore_args.domain_states
    /\ \E target \in (solver_t + 1)..MaxTime, eps \in 0..MaxEps :
        /\ t' = target
        /\ epsilon' = eps
        /\ step_epsilon' = StepEpsilon(eps)
    /\ number_of_states' = Cardinality(domain_states)
    /\ pc' = "loop"
    /\ rpe_at_call' = restore_point_error
    /\ domain_at_call' = domain_states
    /\ n_step' = 0
    /\ n_expand' = 0
    /\ n_restore' = 0
    /\ n_set_rp' = 0
    /\ replaced_states' = domain_states
    /\ UNCHANGED <<domain_states, domain_enum, solver_p, solver_sink, solver_t,
                   restore_point_error, restore_args, eps_sum>>
    /\ UNCHANGED nonFspVars

\* lines 93-94: self.solver.step(t); p, p_sink = self.solver.y
SolverStep ==
    /\ pc = "loop"
    /\ \E y \in StepOutcomes(solver_p, solver_sink) :
        /\ solver_p' = y[1]
        /\ solver_sink' = y[2]
    /\ solver_t' = t
    /\ n_step' = Bump(n_step)
    /\ pc' = "test"
    /\ UNCHANGED <<domain_states, domain_enum, t, epsilon, step_epsilon,
                   number_of_states, restore_point_error, restore_args,
                   rpe_at_call, domain_at_call, replaced_states, n_expand,
                   n_restore, n_set_rp, eps_sum>>
    /\ UNCHANGED nonFspVars

\* lines 139-141: the step is within budget; self.solver.set_restore_point()
\* records y and t as the restore point and p_sink as its error; step returns
\* (faulty variant: the restore point is set whatever the sink holds)
AcceptAnyway ==
    /\ pc = "test"
    /\ restore_args' = AfterSetRestorePoint.restore_args
    /\ restore_point_error' = AfterSetRestorePoint.restore_point_error
    /\ n_set_rp' = Bump(n_set_rp)
    /\ eps_sum' = eps_sum + epsilon
    /\ pc' = "returned"
    /\ UNCHANGED <<domain_states, domain_enum, t, epsilon, step_epsilon,
                   number_of_states, solver_p, solver_sink, solver_t,
                   rpe_at_call, domain_at_call, replaced_states, n_step,
                   n_expand, n_restore>>
    /\ UNCHANGED nonFspVars

Accept ==
    /\ pc = "test"
    /\ ~OverBudget(solver_sink, step_epsilon)
    /\ restore_args' = AfterSetRestorePoint.restore_args
    /\ restore_point_error' = AfterSetRestorePoint.restore_point_error
    /\ n_set_rp' = Bump(n_set_rp)
    /\ eps_sum' = eps_sum + epsilon
    /\ pc' = "returned"
    /\ UNCHANGED <<domain_states, domain_enum, t, epsilon, step_epsilon,
                   number_of_states, solver_p, solver_sink, solver_t,
                   rpe_at_call, domain_at_call, replaced_states, n_step,
                   n_expand, n_restore>>
    /\ UNCHANGED nonFspVars

\* (faulty variant of the action below: lines 134-138 are left out, the loop
\* steps again without a restore)
ExpandWithoutRestore ==
    /\ pc = "test"
    /\ OverBudget(solver_sink, step_epsilon)
    /\ \E expanded_states \in Expansions(domain_states) :
        /\ ~(Cardinality(expanded_states) <= number_of_states)
        /\ domain_states' = expanded_states
        /\ domain_enum' = StateEnum(expanded_states)
    /\ replaced_states' = domain_states
    /\ n_expand' = Bump(n_expand)
    /\ pc' = "loop"
    /\ UNCHANGED <<t, epsilon, step_epsilon, number_of_states, solver_p,
                   solver_sink, solver_t, restore_point_error, restore_args,
                   rpe_at_call, domain_at_call, n_step, n_restore, n_set_rp,
                   eps_sum>>
    /\ UNCHANGED nonFspVars

\* lines 96-138, the growth check passing: the expander is asked for a domain,
\* the restore point's p_0 is remapped onto it, the bookkeeping is updated and
\* the integrator is restored on the expanded domain; the loop steps again
ExpandRestore ==
    /\ pc = "test"
    /\ OverBudget(solver_sink, step_epsilon)
    /\ \E expanded_states \in Expansions(domain_states) :
        LET expanded_enum == StateEnum(expanded_states)
            expanded_p_0 == RemappedP0(expanded_states)
            restored == AfterRestore(expanded_states, expanded_enum, expanded_p_0)
        IN /\ ~(Cardinality(expanded_states) <= number_of_states)
           /\ domain_states' = expanded_states
           /\ domain_enum' = expanded_enum
           /\ restore_args' = restored.restore_args
           /\ solver_p' = restored.y[1]
           /\ solver_sink' = restored.y[2]
           /\ solver_t' = restored.t
    /\ replaced_states' = domain_states
    /\ n_expand' = Bump(n_expand)
    /\ n_restore' = Bump(n_restore)
    /\ pc' = "loop"
    /\ UNCHANGED <<t, epsilon, step_epsilon, number_of_states,
                   restore_point_error, rpe_at_call, domain_at_call, n_step,
                   n_set_rp, eps_sum>>
    /\ UNCHANGED nonFspVars

\* lines 96-132, the growth check failing: the bookkeeping already names the
\* rejected domain when ExpansionFailureError is raised; the integrator is
\* left as the failed step left it
ExpandRaise ==
    /\ pc = "test"
    /\ OverBudget(solver_sink, step_epsilon)
    /\ \E expanded_states \in Expansions(domain_states) :
        /\ Cardinality(expanded_states) <= number_of_states
        /\ domain_states' = expanded_states
        /\ domain_enum' = StateEnum(expanded_states)
    /\ replaced_states' = domain_states
    /\ n_expand' = Bump(n_expand)
    /\ pc' = "raised"
    /\ UNCHANGED <<t, epsilon, step_epsilon, number_of_states, solver_p,
                   solver_sink, solver_t, restore_point_error, restore_args,
                   rpe_at_call, domain_at_call, n_step, n_restore, n_set_rp,
                   eps_sum>>
    /\ UNCHANGED nonFspVars

\* lines 96-132 for an expander that returns a domain lacking states of the
\* restore point's domain, of no more than number_of_states states: line 117
\* looks up states the new enum does not hold. StateEnum.indices either
\* raises there, before anything is assigned, or returns some positions; the
\* vector built from them is dropped when the growth check raises
\* ExpansionFailureError, after the bookkeeping was given the rejected domain.
ExpandRaiseReplaced ==
    /\ pc = "test"
    /\ OverBudget(solver_sink, step_epsilon)
    /\ \E expanded_states \in Replacements(domain_states), lookup_raises \in BOOLEAN :
        /\ Cardinality(expanded_states) <= number_of_states
        /\ domain_states' = IF lookup_raises THEN domain_states ELSE expanded_states
        /\ domain_enum' = IF lookup_raises THEN domain_enum ELSE StateEnum(expanded_states)
    /\ replaced_states' = domain_states
    /\ n_expand' = Bump(n_expand)
    /\ pc' = "raised"
    /\ UNCHANGED <<t, epsilon, step_epsilon, number_of_states, solver_p,
                   solver_sink, solver_t, restore_point_error, restore_args,
                   rpe_at_call, domain_at_call, n_step, n_restore, n_set_rp,
                   eps_sum>>
    /\ UNCHANGED nonFspVars

NextFsp ==
    Call \/ SolverStep \/ Accept \/ ExpandRestore \/ ExpandRaise \/ ExpandRaiseReplaced

\* ------------------------------------------------ StateIndexMap (src/fsp.py)
\* the value of sim before any map is constructed
NoMap == [dim |-> 0, vectstates |-> <<>>, origin |-> 0, state_to_index |-> <<>>,
          index_to_state |-> <<>>, size |-> 0, indices |-> <<>>]

\* how a call ends: with a value, or with an exception raised
Return(v) == [error |-> "none", value |-> v]

Raise(e) == [error |-> e, value |-> <<>>]

\* the origin argument: None, or a number
NoOrigin == [given |-> FALSE, number |-> 0]

Origin(n) == [given |-> TRUE, number |-> n]

\* arrays of shape (dim, n) with coordinates in 0..MaxState: dim rows of length n
Arrays(dim, n) == [1..dim -> [1..n -> 0..MaxState]]

\* itertools.izip(*vectstates): the n columns of the array, each a state tuple
Izip(vectstates) ==
    [k \in 1..Len(vectstates[1]) |->
        [d \in 1..Len(vectstates) |-> vectstates[d][k]]]

\* lines 9-12: origin defaults to 0
OriginOf(origin) == IF ~origin.given THEN 0 ELSE origin.number

RECURSIVE DictsAfter(_, _, _)
\* lines 15-20: the two dicts after the first k states are entered; a repeated
\* key overwrites the entry made before
DictsAfter(states, origin, k) ==
    IF k = 0
    THEN [state_to_index |-> <<>>, index_to_state |-> <<>>]
    ELSE LET d == DictsAfter(states, origin, k - 1)
             relative_index == k - 1
             state == states[k]
             index == origin + relative_index
         IN [state_to_index |-> (state :> index) @@ d.state_to_index,
             index_to_state |-> (index :> state) @@ d.index_to_state]

KeyError == Raise("KeyError")

\* lines 25-27: vectstates_to_indices; a state that is no key raises KeyError
\* (faulty variant: dict.get with a default instead of dict[...])
LookupOrDefault(state_to_index, states) ==
    Return([k \in 1..Len(Izip(states)) |->
        IF Izip(states)[k] \in DOMAIN state_to_index
        THEN state_to_index[Izip(states)[k]]
        ELSE -1])

Lookup(state_to_index, states) ==
    IF \E k \in 1..Len(Izip(states)) : Izip(states)[k] \notin DOMAIN state_to_index
    THEN KeyError
    ELSE Return([k \in 1..Len(Izip(states)) |-> state_to_index[Izip(states)[k]]])

\* lines 29-31: indices_to_vectstates; an index that is no key raises KeyError
ReverseLookup(index_to_state, indexes) ==
    IF \E k \in 1..Len(indexes) : indexes[k] \notin DOMAIN index_to_state
    THEN KeyError
    ELSE Return([k \in 1..Len(indexes) |-> index_to_state[indexes[k]]])

\* lines 34-36: vectstates_in_map
InMap(state_to_index, states) ==
    Return([k \in 1..Len(Izip(states)) |-> Izip(states)[k] \in DOMAIN state_to_index])

\* lines 6-39: StateIndexMap.__init__
StateIndexMap(dim, vectstates, origin) ==
    LET o == OriginOf(origin)
        d == DictsAfter(Izip(vectstates), o, Len(Izip(vectstates)))
    IN [dim |-> dim,
        vectstates |-> vectstates,
        origin |-> o,
        state_to_index |-> d.state_to_index,
        index_to_state |-> d.index_to_state,
        size |-> Cardinality(DOMAIN d.state_to_index),
        indices |-> Lookup(d.state_to_index, vectstates).value]

InitMap ==
    /\ sim = NoMap
    /\ q_kind = "none"
    /\ q_batch = <<>>
    /\ q_result = Return(<<>>)

\* StateIndexMap(dim, vectstates, origin) is constructed
NewMap ==
    /\ sim = NoMap
    /\ \E n \in 1..MaxLen :
         \E vectstates \in Arrays(1, n), origin \in {NoOrigin} \cup {Origin(o) : o \in 0..MaxOrigin} :
            sim' = StateIndexMap(1, vectstates, origin)
    /\ UNCHANGED <<q_kind, q_batch, q_result>>
    /\ UNCHANGED nonMapVars

\* The map never changes once built and the transforms only read it, so one
\* call on each built map shows all a call can do.  Arrays and batches hold at
\* least one entry: what numpy.vectorize does with none depends on numpy.

\* map.vectstates_to_indices(states)
VectstatesToIndices ==
    /\ sim # NoMap
    /\ q_kind = "none"
    /\ \E m \in 1..MaxBatch : \E states \in Arrays(sim.dim, m) :
        /\ q_batch' = states
        /\ q_result' = Lookup(sim.state_to_index, states)
    /\ q_kind' = "vectstates_to_indices"
    /\ UNCHANGED sim
    /\ UNCHANGED nonMapVars

\* map.vectstates_in_map(states)
VectstatesInMap ==
    /\ sim # NoMap
    /\ q_kind = "none"
    /\ \E m \in 1..MaxBatch : \E states \in Arrays(sim.dim, m) :
        /\ q_batch' = states
        /\ q_result' = InMap(sim.state_to_index, states)
    /\ q_kind' = "vectstates_in_map"
    /\ UNCHANGED sim
    /\ UNCHANGED nonMapVars

\* map.indices_to_vectstates(indices)
IndicesToVectstates ==
    /\ sim # NoMap
    /\ q_kind = "none"
    /\ \E m \in 1..MaxBatch : \E indexes \in [1..m -> 0..(MaxOrigin + MaxLen)] :
        /\ q_batch' = indexes
        /\ q_result' = ReverseLookup(sim.index_to_state, indexes)
    /\ q_kind' = "indices_to_vectstates"
    /\ UNCHANGED sim
    /\ UNCHANGED nonMapVars

NextMap == NewMap \/ VectstatesToIndices \/ VectstatesInMap \/ IndicesToVectstates

\* create's variables while another component is exercised
CreateParked ==
    /\ crt_pc = "parked"
    /\ crt_model = [shape |-> [given |-> FALSE, value |-> 0],
                    initial_state |-> [given |-> FALSE, value |-> <<>>]]
    /\ crt_sink = FALSE
    /\ crt_p_0 = [given |-> FALSE, value |-> <<>>]
    /\ crt_domain_states = [given |-> FALSE, value |-> {}]
    /\ cme_solver = Return(<<>>)

\* compress's variables while another component is exercised
CompressParked ==
    /\ cmp_pc = "parked"
    /\ cmp_p = <<>>
    /\ cmp_epsilon = 0
    /\ p_compressed = Return(<<>>)

\* the flux builder's variables while another component is exercised
FluxParked ==
    /\ flux_pc = "parked"
    /\ model = [propensities |-> <<>>, offset_vectors |-> <<>>]
    /\ state_index_map = NoMap
    /\ error_trackers = <<>>
    /\ flux_matrices = Return(<<>>)
    /\ propensity_calls = <<>>
    /\ time_dependencies = <<>>
    /\ de_t = 0
    /\ de_p = <<>>
    /\ p_dot = <<>>

\* the controller's variables while another component is exercised
FspParked ==
    /\ domain_states = {}
    /\ domain_enum = StateEnum({})
    /\ pc = "parked"
    /\ t = 0
    /\ epsilon = 0
    /\ step_epsilon = 0
    /\ number_of_states = 0
    /\ solver_p = <<>>
    /\ solver_sink = 0
    /\ solver_t = 0
    /\ restore_point_error = 0
    /\ restore_args = [p_0 |-> <<>>, domain_enum |-> StateEnum({}),
                       domain_states |-> {}, t_0 |-> 0]
    /\ rpe_at_call = 0
    /\ domain_at_call = {}
    /\ replaced_states = {}
    /\ n_step = 0
    /\ n_expand = 0
    /\ n_restore = 0
    /\ n_set_rp = 0
    /\ eps_sum = 0

InitMapOnly == FspParked /\ InitMap /\ FluxParked /\ CompressParked /\ CreateParked

SpecMap == InitMapOnly /\ [][NextMap]_vars

\* ---------------------------------------- create_flux_matrices (src/fsp.py)
MaxReactions == 2   \* a model has 1..MaxReactions reactions
MaxTrackers == 2    \* 0..MaxTrackers error trackers are configured

\* line 103: projection_dim = 4, the number of ints an error projection returns
projection_dim == 4

\* model['propensities']: a reaction's propensity is constant, or the count
Propensity(propensity, state) == IF propensity = "one" THEN 1 ELSE state[1]

\* the error projections configured: all lost states to one sink state, or each
\* lost state to the sink state of its own count
ErrorProjection(error_projection, state) ==
    IF error_projection = "zero" THEN <<0, 0, 0, 0>> ELSE <<state[1], 0, 0, 0>>

\* array[mask], as the k with mask[k], ascending
Where(mask) == SelectSeq([k \in 1..Len(mask) |-> k], LAMBDA k : mask[k])

\* array[:, mask] for the positions Where(mask)
Columns(array, positions) ==
    [d \in 1..Len(array) |-> [i \in 1..Len(positions) |-> array[d][positions[i]]]]

\* array[mask] for the positions Where(mask)
Masked(array, positions) == [i \in 1..Len(positions) |-> array[positions[i]]]

\* lines 54-55: dest_states = source_states + offset_vector
DestStates(source_states, offset_vector) ==
    [d \in 1..Len(source_states) |->
        [k \in 1..Len(source_states[d]) |-> source_states[d][k] + offset_vector[d]]]

\* propensity(*states), vectorised over the columns of states
Coefficients(propensity, states) ==
    [i \in 1..Len(Izip(states)) |-> Propensity(propensity, Izip(states)[i])]

\* one block of (data, rows, cols), the sign applied to data
\* (faulty variant: rows and cols change places)
BlockTransposed(sign, data, rows, cols) ==
    [i \in 1..Len(data) |-> [data |-> sign * data[i], row |-> cols[i], col |-> rows[i]]]

Block(sign, data, rows, cols) ==
    [i \in 1..Len(data) |-> [data |-> sign * data[i], row |-> rows[i], col |-> cols[i]]]

RECURSIVE ErrorBlocksFirstOnly(_, _, _, _)
\* (faulty variant: only the first tracker listed records the lost flux)
ErrorBlocksFirstOnly(trackers, valid_dest_states, coefficients, valid_source_indices) ==
    IF trackers = <<>>
    THEN Return(<<>>)
    ELSE LET error_projection == Head(trackers).error_projection
             error_index_map == Head(trackers).error_index_map
             dest_error_states ==
                [d \in 1..projection_dim |->
                    [i \in 1..Len(Izip(valid_dest_states)) |->
                        ErrorProjection(error_projection, Izip(valid_dest_states)[i])[d]]]
             dest_error_indices == Lookup(error_index_map.state_to_index, dest_error_states)
             rest == ErrorBlocksFirstOnly(Tail(trackers), valid_dest_states, coefficients,
                                          valid_source_indices)
         IN IF dest_error_indices.error # "none" THEN dest_error_indices
            ELSE IF rest.error # "none" THEN rest
            ELSE Return(Block(1, coefficients, dest_error_indices.value, valid_source_indices))

RECURSIVE ErrorBlocks(_, _, _, _)
\* lines 99-112: for each error tracker in turn, +coefficients in the rows the
\* tracker's index map gives to the projected destinations; a projected state
\* that is no key of the tracker's map raises KeyError
ErrorBlocks(trackers, valid_dest_states, coefficients, valid_source_indices) ==
    IF trackers = <<>>
    THEN Return(<<>>)
    ELSE LET error_projection == Head(trackers).error_projection
             error_index_map == Head(trackers).error_index_map
             dest_error_states ==
                [d \in 1..projection_dim |->
                    [i \in 1..Len(Izip(valid_dest_states)) |->
                        ErrorProjection(error_projection, Izip(valid_dest_states)[i])[d]]]
             dest_error_indices == Lookup(error_index_map.state_to_index, dest_error_states)
             rest == ErrorBlocks(Tail(trackers), valid_dest_states, coefficients,
                                 valid_source_indices)
         IN IF dest_error_indices.error # "none" THEN dest_error_indices
            ELSE IF rest.error # "none" THEN rest
            ELSE Return(Block(1, coefficients, dest_error_indices.value, valid_source_indices)
                        \o rest.value)

\* lines 68-79: the sources whose destination is in the map
\* (faulty variant: the outflow on the diagonal, lines 74-76, is left out)
StateBlocksNoOutflow(propensity, source_states, source_indices, dest_states, in_positions, map) ==
    IF Len(in_positions) > 0
    THEN LET masked_source_indices == Masked(source_indices, in_positions)
             masked_source_states == Columns(source_states, in_positions)
             masked_dest_indices ==
                Lookup(map.state_to_index, Columns(dest_states, in_positions)).value
             coefficients == Coefficients(propensity, masked_source_states)
         IN Block(1, coefficients, masked_dest_indices, masked_source_indices)
    ELSE <<>>

StateBlocks(propensity, source_states, source_indices, dest_states, in_positions, map) ==
    IF Len(in_positions) > 0
    THEN LET masked_source_indices == Masked(source_indices, in_positions)
             masked_source_states == Columns(source_states, in_positions)
             masked_dest_indices ==
                Lookup(map.state_to_index, Columns(dest_states, in_positions)).value
             coefficients == Coefficients(propensity, masked_source_states)
         IN Block(-1, coefficients, masked_source_indices, masked_source_indices)
            \o Block(1, coefficients, masked_dest_indices, masked_source_indices)
    ELSE <<>>

\* (faulty variant: every destination outside the map is taken as valid)
ValidPositionsUnchecked(dest_states, out_positions) == out_positions

\* lines 84-85: of the destinations outside the map, those with no negative
\* coordinate
ValidPositions(dest_states, out_positions) ==
    LET out_dest_states == Columns(dest_states, out_positions)
        validity_mask ==
            [i \in 1..Len(out_positions) |->
                \A d \in 1..Len(dest_states) : out_dest_states[d][i] >= 0]
    IN Masked(out_positions, Where(validity_mask))

\* lines 54-112: data, rows and cols of one reaction, as a list of entries
ReactionEntries(propensity, offset_vector, map, trackers) ==
    LET source_states == map.vectstates
        source_indices == map.indices
        dest_states == DestStates(source_states, offset_vector)
        state_mask == InMap(map.state_to_index, dest_states).value
        not_state_mask == [k \in 1..Len(state_mask) |-> ~state_mask[k]]
        in_positions == Where(state_mask)
        out_positions == Where(not_state_mask)
        valid_positions == ValidPositions(dest_states, out_positions)
        valid_dest_states == Columns(dest_states, valid_positions)
        valid_source_indices == Masked(source_indices, valid_positions)
        valid_source_states == Columns(source_states, valid_positions)
        coefficients == Coefficients(propensity, valid_source_states)
        state_blocks == StateBlocks(propensity, source_states, source_indices,
                                    dest_states, in_positions, map)
        error_blocks == ErrorBlocks(trackers, valid_dest_states, coefficients,
                                    valid_source_indices)
    IN IF Len(out_positions) > 0 /\ Len(valid_positions) > 0
       THEN IF error_blocks.error # "none"
            THEN error_blocks
            ELSE Return(state_blocks
                        \o Block(-1, coefficients, valid_source_indices, valid_source_indices)
                        \o error_blocks.value)
       ELSE Return(state_blocks)

\* lines 72 and 91: the source states handed to one reaction's propensity, in
\* the order of the calls: those whose destination is in the map, then those
\* whose destination is outside it with no negative coordinate
PropensityCalls(propensity, offset_vector, map) ==
    LET source_states == map.vectstates
        dest_states == DestStates(source_states, offset_vector)
        state_mask == InMap(map.state_to_index, dest_states).value
        not_state_mask == [k \in 1..Len(state_mask) |-> ~state_mask[k]]
        in_positions == Where(state_mask)
        out_positions == Where(not_state_mask)
        valid_positions == ValidPositions(dest_states, out_positions)
        masked_source_states == Columns(source_states, in_positions)
        valid_source_states == Columns(source_states, valid_positions)
    IN (IF Len(in_positions) > 0 THEN Izip(masked_source_states) ELSE <<>>)
       \o (IF Len(out_positions) > 0 /\ Len(valid_positions) > 0
           THEN Izip(valid_source_states) ELSE <<>>)

RECURSIVE SumData(_)
\* the sum of the data of a list of entries
SumData(entries) ==
    IF entries = <<>> THEN 0 ELSE Head(entries).data + SumData(Tail(entries))

\* lines 135-138: the number of indices in total
MatrixSize(map, trackers) ==
    map.size + SumData([j \in 1..Len(trackers) |-> [data |-> trackers[j].error_index_map.size]])

\* line 142: coo_matrix.tocsr(): one stored entry per (row, col) that occurs,
\* holding the sum of the data given for it
Tocsr(entries, size) ==
    [rc \in {<<entries[i].row, entries[i].col>> : i \in 1..Len(entries)} |->
        SumData(SelectSeq(entries, LAMBDA e : e.row = rc[1] /\ e.col = rc[2]))]

\* line 144: eliminate_zeros(): the stored entries that hold zero are removed
\* (faulty variant: they are kept)
KeepZeros(stored) == stored

EliminateZeros(stored) ==
    [rc \in {x \in DOMAIN stored : stored[x] # 0} |-> stored[rc]]

\* line 145: sum_duplicates(): no (row, col) is stored twice by now
SumDuplicates(stored) == stored

\* lines 140-145: coo_matrix((data, (rows, cols)), (size, size)), refused with
\* ValueError for an index outside the shape, then tocsr, eliminate_zeros and
\* sum_duplicates; value reads the matrix densely
FluxMatrix(entries, size) ==
    IF \E i \in 1..Len(entries) :
            \/ entries[i].row \notin 0..(size - 1)
            \/ entries[i].col \notin 0..(size - 1)
    THEN Raise("ValueError")
    ELSE LET stored == SumDuplicates(EliminateZeros(Tocsr(entries, size)))
         IN Return([size |-> size,
                    entries |-> entries,
                    stored |-> stored,
                    value |-> [row \in 0..(size - 1) |-> [col \in 0..(size - 1) |->
                        IF <<row, col>> \in DOMAIN stored
                        THEN stored[<<row, col>>] ELSE 0]]])

RECURSIVE MatricesAfterKeepEmpty(_, _, _, _)
\* (faulty variant: a reaction with no data at all appends an empty matrix)
MatricesAfterKeepEmpty(m, map, trackers, k) ==
    IF k = 0
    THEN Return(<<>>)
    ELSE LET before == MatricesAfterKeepEmpty(m, map, trackers, k - 1)
             entries == ReactionEntries(m.propensities[k], m.offset_vectors[k],
                                        map, trackers)
             flux_matrix == FluxMatrix(entries.value, MatrixSize(map, trackers))
         IN IF before.error # "none" THEN before
            ELSE IF entries.error # "none" THEN entries
            ELSE IF flux_matrix.error # "none" THEN flux_matrix
            ELSE Return(Append(before.value, flux_matrix.value))

RECURSIVE MatricesAfter(_, _, _, _)
\* lines 49-149: flux_matrices after the first k reactions; a reaction with no
\* data at all appends nothing (lines 114-115)
MatricesAfter(m, map, trackers, k) ==
    IF k = 0
    THEN Return(<<>>)
    ELSE LET before == MatricesAfter(m, map, trackers, k - 1)
             entries == ReactionEntries(m.propensities[k], m.offset_vectors[k],
                                        map, trackers)
             flux_matrix == FluxMatrix(entries.value, MatrixSize(map, trackers))
         IN IF before.error # "none" THEN before
            ELSE IF entries.error # "none" THEN entries
            ELSE IF Len(entries.value) = 0 THEN before
            ELSE IF flux_matrix.error # "none" THEN flux_matrix
            ELSE Return(Append(before.value, flux_matrix.value))

RECURSIVE PropensityCallsAfter(_, _, _, _)
\* lines 50-91: the calls of the propensities in the first k reactions; the
\* loop ends with the reaction that raises
PropensityCallsAfter(m, map, trackers, k) ==
    IF k = 0
    THEN <<>>
    ELSE IF MatricesAfter(m, map, trackers, k - 1).error # "none"
    THEN PropensityCallsAfter(m, map, trackers, k - 1)
    ELSE Append(PropensityCallsAfter(m, map, trackers, k - 1),
                PropensityCalls(m.propensities[k], m.offset_vectors[k], map))

\* lines 41-149
create_flux_matrices(m, map, trackers) ==
    MatricesAfter(m, map, trackers, Len(m.propensities))

\* ------------------------------------------------ create_diff_eqs (src/fsp.py)
\* the time dependencies supplied: constantly one, or the time itself
Phi(phi, time) == IF phi = "one" THEN 1 ELSE time

\* flux_matrix*p for a dense p over 0..size-1
MatVec(flux_matrix, p) ==
    [row \in 0..(flux_matrix.size - 1) |->
        SumTo([col \in 0..(flux_matrix.size - 1) |-> flux_matrix.value[row][col] * p[col]],
              flux_matrix.size)]

RECURSIVE PDotAfter(_, _, _, _, _)
\* lines 162-166: p_dot after the first k pairs of izip(time_dependencies,
\* flux_matrices)
PDotAfter(phis, matrices, time, p, k) ==
    IF k = 0
    THEN [i \in DOMAIN p |-> 0]
    ELSE [i \in DOMAIN p |->
            PDotAfter(phis, matrices, time, p, k - 1)[i]
            + Phi(phis[k], time) * MatVec(matrices[k], p)[i]]

\* lines 153-169: diff_eqs(t, p); izip stops with the shorter of its arguments
diff_eqs(phis, matrices, time, p) ==
    PDotAfter(phis, matrices, time, p, Min(Len(phis), Len(matrices)))

\* ------------------------------------------- the inputs of the flux builder
\* the domains: the counts 0..k in ascending order, indexed from 0
DomainVectstates(k) == [d \in 1..1 |-> [j \in 1..(k + 1) |-> j - 1]]

DomainMaps == {StateIndexMap(1, DomainVectstates(k), NoOrigin) : k \in States}

\* the models: 1..MaxReactions reactions, each a birth or a death of one copy
\* or a reaction that leaves the count as it is
Models ==
    UNION {[propensities : [1..n -> {"one", "count"}],
            offset_vectors : [1..n -> {<<-1>>, <<0>>, <<1>>}]] : n \in 1..MaxReactions}

\* the error index maps: one sink state, placed by the caller's origin
SinkVectstates == [d \in 1..projection_dim |-> <<0>>]

\* the trackers configured: every lost state to the one sink state, the sink
\* placed by the default origin, right after the domain's rows, or one row
\* further (the place of a second tracker); or each lost state to the sink
\* state of its own count, which the map does not hold
Trackers(map) ==
    {[error_projection |-> "zero",
      error_index_map |-> StateIndexMap(projection_dim, SinkVectstates, origin)] :
        origin \in {NoOrigin, Origin(map.size), Origin(map.size + 1)}}
    \cup {[error_projection |-> "count",
           error_index_map |-> StateIndexMap(projection_dim, SinkVectstates, Origin(map.size))]}

TrackerLists(map) == UNION {[1..n -> Trackers(map)] : n \in 0..MaxTrackers}

\* the one tracker wired as the matrix layout expects: the sink right after
\* the domain's rows
SinkTracker(map) ==
    [error_projection |-> "zero",
     error_index_map |-> StateIndexMap(projection_dim, SinkVectstates, Origin(map.size))]

FluxInputs ==
    /\ flux_pc = "input"
    /\ model \in Models
    /\ state_index_map \in DomainMaps
    /\ flux_matrices = Return(<<>>)
    /\ propensity_calls = <<>>
    /\ time_dependencies = <<>>
    /\ de_t = 0
    /\ de_p = <<>>
    /\ p_dot = <<>>

InitFlux == FluxInputs /\ error_trackers \in TrackerLists(state_index_map)

InitDiffEqs == FluxInputs /\ error_trackers \in {<<>>, <<SinkTracker(state_index_map)>>}

\* create_flux_matrices(model, state_index_map, error_trackers) is called
CreateFluxMatrices ==
    /\ flux_pc = "input"
    /\ flux_matrices' = create_flux_matrices(model, state_index_map, error_trackers)
    /\ propensity_calls' = PropensityCallsAfter(model, state_index_map, error_trackers,
                                                Len(model.propensities))
    /\ flux_pc' = "built"
    /\ UNCHANGED <<model, state_index_map, error_trackers, time_dependencies, de_t, de_p, p_dot>>
    /\ UNCHANGED nonFluxVars

\* the unit vectors of length n
UnitVectors(n) == {[i \in 0..(n - 1) |-> IF i = j THEN 1 ELSE 0] : j \in 0..(n - 1)}

\* create_diff_eqs(size, flux_matrices, time_dependencies) is called with one
\* time dependency per reaction of the model, and the function it returns is
\* applied to a time and a vector
DiffEqs ==
    /\ flux_pc = "built"
    /\ flux_matrices.error = "none"
    /\ \E phis \in [1..Len(model.propensities) -> {"one", "time"}],
          time \in 0..MaxTime,
          p \in UnitVectors(MatrixSize(state_index_map, error_trackers)) :
        /\ time_dependencies' = phis
        /\ de_t' = time
        /\ de_p' = p
        /\ p_dot' = diff_eqs(phis, flux_matrices.value, time, p)
    /\ flux_pc' = "applied"
    /\ UNCHANGED <<model, state_index_map, error_trackers, flux_matrices, propensity_calls>>
    /\ UNCHANGED nonFluxVars

MapParked == InitMap

InitFluxOnly ==
    FspParked /\ MapParked /\ CompressParked /\ CreateParked /\ InitFlux

SpecFlux == InitFluxOnly /\ [][CreateFluxMatrices]_vars

NextDiffEqs == CreateFluxMatrices \/ DiffEqs

InitDiffEqsOnly ==
    FspParked /\ MapParked /\ CompressParked /\ CreateParked /\ InitDiffEqs

SpecDiffEqs == InitDiffEqsOnly /\ [][NextDiffEqs]_vars

\* -------------------------------------------- compress (src/cmepy/statistics.py)
Whole == 4   \* the probability 1.0, in units; epsilon and p are counted in these

\* cmepy.domain.from_mapping(p): the keys of p as the columns of an array and
\* their probabilities, entry by entry.  The keys are taken in ascending
\* order: any other order gives the same outcomes, argsort being free among
\* equal probabilities.
from_mapping(p) ==
    LET keys == DOMAIN p
        states == [i \in 1..Cardinality(keys) |->
                    CHOOSE s \in keys : Cardinality({r \in keys : r[1] < s[1]}) = i - 1]
    IN [states |-> states, probabilities |-> [i \in 1..Cardinality(keys) |-> p[states[i]]]]

\* line 304: numpy.argsort(probabilities): the orders that sort the
\* probabilities; which of several equal entries comes first is not fixed
\* (faulty variant: the orders that sort them descending)
ArgsortsDescending(probabilities) ==
    {order \in Permutations(1..Len(probabilities)) :
        \A i, j \in 1..Len(probabilities) :
            i < j => probabilities[order[i]] >= probabilities[order[j]]}

Argsorts(probabilities) ==
    {order \in Permutations(1..Len(probabilities)) :
        \A i, j \in 1..Len(probabilities) :
            i < j => probabilities[order[i]] <= probabilities[order[j]]}

\* array[order]
Ordered(array, order) == [i \in 1..Len(array) |-> array[order[i]]]

\* line 306: probabilities = probabilities[order]
\* (faulty variant: the probabilities are left in their own order)
UnsortedProbabilities(probabilities, order) == probabilities

SortedProbabilities(probabilities, order) == Ordered(probabilities, order)

RECURSIVE Accumulate(_, _)
\* line 310: numpy.add.accumulate(probabilities), entry k
Accumulate(probabilities, k) ==
    IF k = 0 THEN 0 ELSE probabilities[k] + Accumulate(probabilities, k - 1)

\* line 311: approximation = (cumulative_probability >= epsilon)
\* (faulty variant: > for >=)
ApproximationAbove(probabilities, eps) ==
    [k \in 1..Len(probabilities) |-> Accumulate(probabilities, k) > eps]

Approximation(probabilities, eps) ==
    [k \in 1..Len(probabilities) |-> Accumulate(probabilities, k) >= eps]

\* line 294: 0.0 <= epsilon <= 1.0
\* (faulty variant: no upper limit)
ValidEpsilonUnlimited(eps) == 0 <= eps

ValidEpsilon(eps) == 0 <= eps /\ eps <= Whole

\* (faulty variant: the probabilities are not cut down to the approximation,
\* line 313, so that the retained states are paired with the smallest ones)
CompressedUnpaired(p, eps, order) ==
    LET states == Ordered(from_mapping(p).states, order)
        probabilities == SortedProbabilities(from_mapping(p).probabilities, order)
        approximation == Approximation(probabilities, eps)
        kept == Where(approximation)
    IN [state \in {states[kept[i]] : i \in 1..Len(kept)} |->
            probabilities[CHOOSE i \in 1..Len(kept) : states[kept[i]] = state]]

\* lines 301-319 for one choice of argsort: the retained states with the
\* probabilities at their places
Compressed(p, eps, order) ==
    LET states == Ordered(from_mapping(p).states, order)
        probabilities == SortedProbabilities(from_mapping(p).probabilities, order)
        approximation == Approximation(probabilities, eps)
        kept == Where(approximation)
    IN [state \in {states[kept[i]] : i \in 1..Len(kept)} |->
            probabilities[CHOOSE k \in 1..Len(states) : approximation[k] /\ states[k] = state]]

\* the distributions: some states of one count each, their probabilities
\* non-negative and at most 1.0 in total
Distributions ==
    UNION {{p \in [keys -> 0..Whole] :
                Accumulate([i \in 1..Cardinality(keys) |-> from_mapping(p).probabilities[i]],
                           Cardinality(keys)) <= Whole} :
           keys \in SUBSET {<<n>> : n \in States}}

InitCompress ==
    /\ cmp_pc = "input"
    /\ cmp_p \in Distributions
    /\ cmp_epsilon \in -1..(Whole + 1)
    /\ p_compressed = Return(<<>>)

\* lines 294-295: compress(p, epsilon) with an epsilon out of range
CompressRaises ==
    /\ cmp_pc = "input"
    /\ ~ValidEpsilon(cmp_epsilon)
    /\ p_compressed' = Raise("ValueError")
    /\ cmp_pc' = "done"
    /\ UNCHANGED <<cmp_p, cmp_epsilon>>
    /\ UNCHANGED nonCompressVars

\* lines 297-321: compress(p, epsilon) with an epsilon in range
Compress ==
    /\ cmp_pc = "input"
    /\ ValidEpsilon(cmp_epsilon)
    /\ IF Cardinality(DOMAIN cmp_p) > 0
       THEN \E order \in Argsorts(from_mapping(cmp_p).probabilities) :
                p_compressed' = Return(Compressed(cmp_p, cmp_epsilon, order))
       ELSE p_compressed' = Return(<<>>)
    /\ cmp_pc' = "done"
    /\ UNCHANGED <<cmp_p, cmp_epsilon>>
    /\ UNCHANGED nonCompressVars

NextCompress == CompressRaises \/ Compress

InitCompressOnly ==
    FspParked /\ MapParked /\ FluxParked /\ CreateParked /\ InitCompress

SpecCompress == InitCompressOnly /\ [][NextCompress]_vars

\* ------------------------------------------- create (src/cmepy/solver.py)
\* an optional argument or model entry: None, or a value
None(empty) == [given |-> FALSE, value |-> empty]

Some(v) == [given |-> TRUE, value |-> v]

\* cmepy.domain.from_rect(shape): the states of the rectangle, here the counts
\* below shape on the one axis
from_rect(shape) == {<<n>> : n \in 0..(shape - 1)}

\* the states an argument can name: one count more than the largest shape has
ArgStates == {<<n>> : n \in 0..(MaxState + 1)}

\* lines 92-140: what create returns or raises
create(m, sink, p_0, states) ==
    IF ~states.given /\ ~m.shape.given
    THEN Raise("KeyError")
    ELSE LET resolved_states == IF ~states.given THEN from_rect(m.shape.value) ELSE states.value
             initial_state == m.initial_state
         IN IF ~p_0.given /\ ~initial_state.given
            THEN Raise("ValueError")
            ELSE LET resolved_p_0 ==
                        IF ~p_0.given
                        THEN [s \in {initial_state.value} |-> Whole]
                        ELSE p_0.value
                     member_flags == [s \in DOMAIN resolved_p_0 |-> s \in resolved_states]
                 IN IF ~(\A s \in DOMAIN member_flags : member_flags[s])
                    THEN Raise("ValueError")
                    ELSE Return([domain_states |-> resolved_states,
                                 p_0 |-> resolved_p_0,
                                 sink |-> sink])

InitCreate ==
    /\ crt_pc = "input"
    /\ crt_model \in [shape : {None(0)} \cup {Some(n) : n \in 1..(MaxState + 1)},
                      initial_state : {None(<<>>)} \cup {Some(s) : s \in ArgStates}]
    /\ crt_sink \in BOOLEAN
    /\ crt_p_0 \in {None(<<>>)} \cup {Some([s \in {r} |-> Whole]) : r \in ArgStates}
    /\ crt_domain_states \in {None({})} \cup {Some(from_rect(n)) : n \in 1..(MaxState + 1)}
    /\ cme_solver = Return(<<>>)

\* create(model, sink, p_0, domain_states = ...) is called
Create ==
    /\ crt_pc = "input"
    /\ cme_solver' = create(crt_model, crt_sink, crt_p_0, crt_domain_states)
    /\ crt_pc' = "done"
    /\ UNCHANGED <<crt_model, crt_sink, crt_p_0, crt_domain_states>>
    /\ UNCHANGED nonCreateVars

InitCreateOnly ==
    FspParked /\ MapParked /\ FluxParked /\ CompressParked /\ InitCreate

SpecCreate == InitCreateOnly /\ [][Create]_vars

\* ------------------------------------------------------- specifications
Init == InitFsp /\ InitMap /\ FluxParked /\ CompressParked /\ CreateParked

Next == NextFsp

Spec == Init /\ [][Next]_vars

\* step runs to its end once entered: nothing outside the call can hold it up
FairSpec == Init /\ [][Next]_vars /\ WF_vars(SolverStep \/ Accept \/ ExpandRestore \/ ExpandRaise \/ ExpandRaiseReplaced)

\* ------------------------------------------------------ claims on FspSolver
Card(S) == Cardinality(S)

\* the threshold the claims speak of: the error the integrator held when the
\* call started, plus the call's budget
Threshold == rpe_at_call + epsilon

\* C1: step returns only when the sink mass read after the last integrator step
\* is at most the restore-point error held at the start of the call plus
\* epsilon; an over-budget step is never accepted (no return, no restore point)
\* and the expander is invoked instead.
C1_ReturnsOnlyWithinBudget ==
    [][/\ (pc = "test" /\ pc' = "returned") =>
              /\ solver_sink <= Threshold
              /\ solver_sink' = solver_sink
       /\ (pc = "test" /\ solver_sink > Threshold) =>
              /\ pc' \in {"loop", "raised"}
              /\ n_expand' = Bump(n_expand)
              /\ replaced_states' = domain_states
              /\ n_set_rp' = n_set_rp]_vars

\* C1 witness: a call that expanded, then returned with the sink exactly at a
\* threshold that carries a non-zero earlier error
C1_Witness ==
    /\ pc = "returned"
    /\ n_expand >= 1
    /\ rpe_at_call > 0
    /\ solver_sink = Threshold

\* C2 (as claimed): every expansion of a call, the first and the later ones,
\* either yields strictly more states than the domain it replaces or makes
\* step raise ExpansionFailureError.
C2_EveryExpansionGrows ==
    [][(pc = "test" /\ pc' \in {"loop", "raised"}) =>
          /\ (Card(domain_states') <= Card(domain_states)) => pc' = "raised"
          /\ pc' = "loop" => Card(domain_states') > Card(domain_states)]_vars

\* C3 (as claimed): a call of step, once entered, eventually returns with the
\* budget met at the target time or raises ExpansionFailureError.
C3_StepEnds ==
    (pc \in {"loop", "test"}) ~>
        \/ pc = "raised"
        \/ (pc = "returned" /\ solver_sink <= Threshold /\ solver_t = t)

\* C4: the error committed at the restore point never exceeds the sum of the
\* budgets of the calls that returned (the restore-point error starts at 0),
\* whether or not calls that raised came between them.
C4_BudgetsAdd == restore_point_error <= eps_sum

\* C4 witness: two calls returned and the committed error fills the summed
\* budget, which is more than the last call's own epsilon
C4_Witness ==
    /\ pc = "returned"
    /\ restore_point_error = eps_sum
    /\ restore_point_error > epsilon
    /\ epsilon > 0

\* C5: when the first integrator step of a call is within budget, the call
\* returns after exactly one integrator step, no expander invocation and no
\* restore, with domain_states and domain_enum as they were.
C5_FirstAttemptAccepted ==
    [][(pc = "test" /\ n_step = 1 /\ solver_sink <= Threshold) =>
          /\ pc' = "returned"
          /\ n_step' = 1
          /\ n_expand' = 0
          /\ n_restore' = 0
          /\ domain_states' = domain_at_call
          /\ domain_enum' = StateEnum(domain_at_call)]_vars

\* C5 witness: a call returned after one step with a non-zero sink exactly at
\* the threshold
C5_Witness ==
    /\ pc = "returned"
    /\ n_step = 1
    /\ n_expand = 0
    /\ solver_sink > 0
    /\ solver_sink = Threshold

\* C6: set_restore_point is called only right after an integrator step within
\* budget, once per call that returns, never after a step that triggered an
\* expansion and never in a call that raises.
C6_RestorePointOnlyOnAccept ==
    [][/\ (n_set_rp' > n_set_rp \/ restore_point_error' # restore_point_error
              \/ restore_args'.t_0 # restore_args.t_0) =>
              /\ pc = "test"
              /\ solver_sink <= Threshold
              /\ pc' = "returned"
       /\ (pc = "test" /\ solver_sink > Threshold) => n_set_rp' = n_set_rp
       /\ (pc # "returned" /\ pc' = "returned") => n_set_rp' = 1
       /\ pc' \in {"loop", "test", "raised"} => n_set_rp' = 0]_vars

\* C6 witness: a call returned after two expansions with one restore point set
C6_Witness ==
    /\ pc = "returned"
    /\ n_expand = 2
    /\ n_set_rp = 1

\* C7: on an expansion whose domain holds every state of the restore point's
\* domain, the vector handed to restore carries old_p[old_index(s)] at
\* new_index(s) for every old state s, zero everywhere else, and so the same
\* total mass.
C7_RemapKeepsMass ==
    [][(pc = "test" /\ pc' = "loop") =>
          LET old_enum == restore_args.domain_enum
              old_p == restore_args.p_0
              new_enum == restore_args'.domain_enum
              new_p == restore_args'.p_0
              old_states == {EnumState(old_enum, i) : i \in 0..(old_enum.size - 1)}
          IN (\A s \in old_states : EnumHas(new_enum, s)) =>
                /\ Size(new_p) = new_enum.size
                /\ \A s \in old_states :
                      new_p[EnumIndex(new_enum, s)] = old_p[EnumIndex(old_enum, s)]
                /\ \A j \in 0..(new_enum.size - 1) :
                      (\A s \in old_states : EnumIndex(new_enum, s) # j) => new_p[j] = 0
                /\ Total(new_p) = Total(old_p)
                /\ solver_p' = new_p]_vars

\* C7 witness: after a restore, a state whose index moved in the expansion
\* holds mass
C7_Witness ==
    /\ pc = "loop"
    /\ n_restore >= 1
    /\ \E s \in replaced_states :
          /\ EnumIndex(StateEnum(replaced_states), s) # EnumIndex(restore_args.domain_enum, s)
          /\ restore_args.p_0[EnumIndex(restore_args.domain_enum, s)] > 0

\* C19: when a step is over budget, the vector remapped onto the expanded
\* domain and handed to restore is the restore point's p_0, read over the
\* restore point's enum, never the solution p of the failed step; that p and
\* its p_sink go to the expander only.
C19_RemapsRestorePoint ==
    [][(pc = "test" /\ pc' = "loop") =>
          LET old_enum == restore_args.domain_enum
              old_states == {EnumState(old_enum, i) : i \in 0..(old_enum.size - 1)}
          IN /\ \A s \in old_states :
                    EnumHas(domain_enum', s) =>
                        solver_p'[EnumIndex(domain_enum', s)]
                            = restore_args.p_0[EnumIndex(old_enum, s)]
             /\ Total(solver_p') = Total(restore_args.p_0)
             /\ Total(solver_p') # Total(solver_p)
             /\ solver_sink' = restore_point_error
             /\ solver_sink' # solver_sink]_vars

\* C19 witness: after the second restore of a call the integrator holds the
\* restore point's whole mass again, on a domain with a state the restore
\* point did not have
C19_Witness ==
    /\ pc = "loop"
    /\ n_restore = 2
    /\ Total(solver_p) + restore_point_error = Mass
    /\ solver_sink = restore_point_error
    /\ Cardinality(domain_states) > Cardinality(domain_at_call)
    /\ solver_p = restore_args.p_0

\* the counters of the call have not run into their bound
Counted == n_step < MaxCount

\* C20: within one call the integrator sees step, (expand, restore, step)*,
\* set_restore_point: a retry step starts from exactly one restore with the
\* new domain, its enum and the remapped vector, no step runs on an expanded
\* domain without it, and a returning call has made (expansions + 1) steps.
C20_StepOrder ==
    /\ (pc = "loop" /\ Counted) =>
            /\ n_step = n_expand
            /\ n_restore = n_expand
            /\ n_set_rp = 0
    /\ (pc = "loop" /\ n_expand >= 1) =>
            /\ restore_args.domain_states = domain_states
            /\ restore_args.domain_enum = domain_enum
            /\ Size(solver_p) = Cardinality(domain_states)
            /\ solver_p = restore_args.p_0
            /\ solver_t = restore_args.t_0
    /\ (pc = "test" /\ Counted) =>
            /\ n_step = n_expand + 1
            /\ n_restore = n_expand
            /\ n_set_rp = 0
    /\ (pc = "returned" /\ Counted) =>
            /\ n_step = n_expand + 1
            /\ n_restore = n_expand
            /\ n_set_rp = 1
    /\ (pc = "raised" /\ Counted) =>
            /\ n_step = n_expand
            /\ n_restore = n_expand - 1
            /\ n_set_rp = 0

\* C20 witness: a call that returned after one expansion, one restore and two
\* integrator steps
C20_Witness ==
    /\ pc = "returned"
    /\ n_step = 2
    /\ n_expand = 1
    /\ n_restore = 1
    /\ n_set_rp = 1
    /\ Cardinality(domain_states) > Cardinality(domain_at_call)

BuiltFrom == {Izip(sim.vectstates)[k] : k \in 1..Len(Izip(sim.vectstates))}

Assigned == {sim.origin + (k - 1) : k \in 1..Len(Izip(sim.vectstates))}

HasDuplicate(states) ==
    \E j, k \in 1..Len(states) : j # k /\ states[j] = states[k]

\* C8 (as claimed): for a map built from any collection of states,
\* index_of(state_of(i)) = i for every assigned index i and
\* state_of(index_of(s)) = s for every state s of the collection.
C8_RoundTrip ==
    sim # NoMap =>
        /\ \A i \in Assigned :
              /\ i \in DOMAIN sim.index_to_state
              /\ sim.index_to_state[i] \in DOMAIN sim.state_to_index
              /\ sim.state_to_index[sim.index_to_state[i]] = i
        /\ \A s \in BuiltFrom :
              /\ s \in DOMAIN sim.state_to_index
              /\ sim.state_to_index[s] \in DOMAIN sim.index_to_state
              /\ sim.index_to_state[sim.state_to_index[s]] = s

\* C9 (as claimed): no map is built from a collection holding a state twice;
\* in a built map no two indices refer to one state and size is the number of
\* assigned indices.
C9_DuplicatesRejected ==
    sim # NoMap =>
        /\ ~HasDuplicate(Izip(sim.vectstates))
        /\ \A i, j \in DOMAIN sim.index_to_state :
              sim.index_to_state[i] = sim.index_to_state[j] => i = j
        /\ sim.size = Cardinality(DOMAIN sim.index_to_state)

\* C10: vectstates_to_indices on a batch holding a state outside the domain
\* fails and returns no index; vectstates_in_map returns, in the order of the
\* batch, TRUE for exactly the states of the domain and FALSE for the others.
C10_AbsentStateLookup ==
    /\ q_kind = "vectstates_to_indices" =>
          IF \E k \in 1..Len(Izip(q_batch)) : Izip(q_batch)[k] \notin BuiltFrom
          THEN q_result.error = "KeyError" /\ q_result.value = <<>>
          ELSE /\ q_result.error = "none"
               /\ Len(q_result.value) = Len(Izip(q_batch))
               /\ \A k \in 1..Len(q_result.value) :
                     /\ q_result.value[k] \in Assigned
                     /\ sim.index_to_state[q_result.value[k]] = Izip(q_batch)[k]
    /\ q_kind = "vectstates_in_map" =>
          /\ q_result.error = "none"
          /\ Len(q_result.value) = Len(Izip(q_batch))
          /\ \A k \in 1..Len(q_result.value) :
                q_result.value[k] = (Izip(q_batch)[k] \in BuiltFrom)

\* C10 witness: the index lookup failed on a batch whose first state is in the
\* domain and whose second is not
C10_Witness ==
    /\ q_kind = "vectstates_to_indices"
    /\ q_result.error = "KeyError"
    /\ Len(Izip(q_batch)) = 2
    /\ Izip(q_batch)[1] \in BuiltFrom
    /\ Izip(q_batch)[2] \notin BuiltFrom

\* ------------------------------------------ claims on create_flux_matrices
\* the states of the domain, and a source's destination under reaction k
Sources == DOMAIN state_index_map.state_to_index

Dest(k, s) == [d \in 1..Len(s) |-> s[d] + model.offset_vectors[k][d]]

InDomain(x) == x \in Sources

ValidOutside(x) == x \notin Sources /\ \A d \in 1..Len(x) : x[d] >= 0

\* reaction k has a valid destination from some source
HasValidDest(k) == \E s \in Sources : InDomain(Dest(k, s)) \/ ValidOutside(Dest(k, s))

\* the matrix emitted for reaction k: one matrix per reaction that has a valid
\* destination, in reaction order
MatrixOf(k) == flux_matrices.value[Cardinality({j \in 1..k : HasValidDest(j)})]

Rate(k, s) == Propensity(model.propensities[k], s)

Idx(s) == state_index_map.state_to_index[s]

\* the sum of a column over all rows of the matrix
ColumnSum(flux_matrix, col) ==
    SumTo([row \in 0..(flux_matrix.size - 1) |-> flux_matrix.value[row][col]],
          flux_matrix.size)

Built == flux_pc = "built" /\ flux_matrices.error = "none"

SlotBase(j) ==
    state_index_map.size
    + SumData([i \in 1..(j - 1) |-> [data |-> error_trackers[i].error_index_map.size]])

\* the row tracker j's index map gives to the projection of x, if it has one
Projected(j, x) == ErrorProjection(error_trackers[j].error_projection, x)

HasErrorIndex(j, x) == Projected(j, x) \in DOMAIN error_trackers[j].error_index_map.state_to_index

ErrorIndex(j, x) == error_trackers[j].error_index_map.state_to_index[Projected(j, x)]

\* some lost destination gets an accumulator index beyond the accumulator's size
IndexExceedsSize ==
    \E k \in 1..Len(model.propensities) : \E s \in Sources : \E j \in 1..Len(error_trackers) :
        /\ ValidOutside(Dest(k, s))
        /\ HasErrorIndex(j, Dest(k, s))
        /\ ErrorIndex(j, Dest(k, s)) - SlotBase(j) >= error_trackers[j].error_index_map.size

\* C12 (as claimed): every emitted flux matrix is square of size N_domain plus
\* the sizes of the error accumulators, and a build in which a projected
\* out-of-domain destination gets an accumulator index outside the
\* accumulator's declared size fails instead of producing a matrix.
C12_SizeAndMismatch ==
    flux_pc = "built" =>
        /\ flux_matrices.error = "none" =>
                \A i \in 1..Len(flux_matrices.value) :
                    /\ flux_matrices.value[i].size = MatrixSize(state_index_map, error_trackers)
                    /\ DOMAIN flux_matrices.value[i].value = 0..(flux_matrices.value[i].size - 1)
        /\ IndexExceedsSize => flux_matrices.error # "none"

\* the contributions of source s to a matrix: its entries in column idx(s), in
\* the order they were recorded
ColumnEntries(flux_matrix, s) ==
    SelectSeq(flux_matrix.entries, LAMBDA e : e.col = Idx(s))

Entry(data, row, col) == [data |-> data, row |-> row, col |-> col]

\* C21: for a source s whose destination d under reaction k is in the domain,
\* the reaction's matrix has -r at (idx(s), idx(s)) and +r at (idx(d), idx(s))
\* with r the propensity at s, and nothing else comes from s.
C21_InDomainEntries ==
    Built =>
        \A k \in 1..Len(model.propensities) : \A s \in Sources :
            InDomain(Dest(k, s)) =>
                ColumnEntries(MatrixOf(k), s)
                    = <<Entry(-Rate(k, s), Idx(s), Idx(s)),
                        Entry(Rate(k, s), Idx(Dest(k, s)), Idx(s))>>

\* C21 witness: a built matrix in which a source with a positive propensity
\* moves to another state of the domain
C21_Witness ==
    /\ Built
    /\ \E k \in 1..Len(model.propensities) : \E s \in Sources :
        /\ InDomain(Dest(k, s))
        /\ Dest(k, s) # s
        /\ Rate(k, s) > 0
        /\ MatrixOf(k).value[Idx(s)][Idx(s)] = -Rate(k, s)
        /\ MatrixOf(k).value[Idx(Dest(k, s))][Idx(s)] = Rate(k, s)

\* C22: for a source s whose destination d under reaction k is outside the
\* domain with no negative coordinate, the reaction's matrix has -r at
\* (idx(s), idx(s)) and, for each error tracker in turn, +r at (the index of
\* the projected destination in that tracker's index map, idx(s)); with no
\* error tracker, the -r on the diagonal is all.
C22_LostFluxEntries ==
    Built =>
        \A k \in 1..Len(model.propensities) : \A s \in Sources :
            ValidOutside(Dest(k, s)) =>
                ColumnEntries(MatrixOf(k), s)
                    = <<Entry(-Rate(k, s), Idx(s), Idx(s))>>
                      \o [j \in 1..Len(error_trackers) |->
                            Entry(Rate(k, s), ErrorIndex(j, Dest(k, s)), Idx(s))]

\* C22 witness: a matrix built with two error trackers placed in different
\* rows, in which a source with a positive propensity loses its flux to both
C22_Witness ==
    /\ Built
    /\ Len(error_trackers) = 2
    /\ \E k \in 1..Len(model.propensities) : \E s \in Sources :
        /\ ValidOutside(Dest(k, s))
        /\ Rate(k, s) > 0
        /\ ErrorIndex(1, Dest(k, s)) # ErrorIndex(2, Dest(k, s))
        /\ MatrixOf(k).value[Idx(s)][Idx(s)] = -Rate(k, s)
        /\ MatrixOf(k).value[ErrorIndex(1, Dest(k, s))][Idx(s)] = Rate(k, s)
        /\ MatrixOf(k).value[ErrorIndex(2, Dest(k, s))][Idx(s)] = Rate(k, s)

\* C22 witness of the other case: a matrix built without any error tracker,
\* in which a source with a positive propensity loses its flux
C22_WitnessNoTracker ==
    /\ Built
    /\ error_trackers = <<>>
    /\ \E k \in 1..Len(model.propensities) : \E s \in Sources :
        /\ ValidOutside(Dest(k, s))
        /\ Rate(k, s) > 0
        /\ ColumnSum(MatrixOf(k), Idx(s)) = -Rate(k, s)

\* some coordinate of x is negative
Negative(x) == \E d \in 1..Len(x) : x[d] < 0

\* the propensity of reaction k was given the state s
EvaluatedAt(k, s) ==
    k <= Len(propensity_calls) /\ \E i \in 1..Len(propensity_calls[k]) : propensity_calls[k][i] = s

\* C23: a source s whose destination under reaction k has a negative
\* coordinate contributes nothing to the reaction's matrix (no entry in column
\* idx(s)), and the reaction's propensity is not evaluated at s.
C23_NegativeDestinationSkipped ==
    flux_pc = "built" =>
        \A k \in 1..Len(model.propensities) : \A s \in Sources :
            Negative(Dest(k, s)) =>
                /\ ~EvaluatedAt(k, s)
                /\ (Built /\ HasValidDest(k)) =>
                        /\ ColumnEntries(MatrixOf(k), s) = <<>>
                        /\ \A row \in 0..(MatrixOf(k).size - 1) :
                                MatrixOf(k).value[row][Idx(s)] = 0

\* C23 witness: a built matrix of a reaction that takes one source to a
\* negative count and another source, where the propensity is evaluated and
\* positive, to a state of the domain
C23_Witness ==
    /\ Built
    /\ \E k \in 1..Len(model.propensities) : \E s, r \in Sources :
        /\ Negative(Dest(k, s))
        /\ Rate(k, s) > 0
        /\ InDomain(Dest(k, r))
        /\ EvaluatedAt(k, r)
        /\ MatrixOf(k).value[Idx(r)][Idx(r)] = -Rate(k, r)
        /\ Rate(k, r) > 0

\* the reactions that have a valid destination from some source
Emitting == {k \in 1..Len(model.propensities) : HasValidDest(k)}

\* the contributions reaction k makes from source s, by the destination's kind
ContributionsOf(k, s) ==
    IF InDomain(Dest(k, s))
    THEN <<Entry(-Rate(k, s), Idx(s), Idx(s)), Entry(Rate(k, s), Idx(Dest(k, s)), Idx(s))>>
    ELSE IF Negative(Dest(k, s)) THEN <<>>
    ELSE <<Entry(-Rate(k, s), Idx(s), Idx(s))>>
         \o [j \in 1..Len(error_trackers) |->
                Entry(Rate(k, s), ErrorIndex(j, Dest(k, s)), Idx(s))]

\* C24: a reaction for which no source state of the domain has a valid
\* destination produces no matrix in the list create_flux_matrices returns and
\* raises no error; every other reaction produces exactly one matrix, in
\* reaction order.
C24_SkippedReactions ==
    flux_pc = "built" =>
        /\ Emitting = {} => flux_matrices = Return(<<>>)
        /\ flux_matrices.error # "none" =>
                \E k \in Emitting : \E s \in Sources : ValidOutside(Dest(k, s))
        /\ flux_matrices.error = "none" =>
                /\ Len(flux_matrices.value) = Cardinality(Emitting)
                /\ \A k \in Emitting : \A s \in Sources :
                        ColumnEntries(MatrixOf(k), s) = ContributionsOf(k, s)

\* C24 witness: a list of one matrix built for two reactions, the first
\* without any valid destination, the second with a positive flux
C24_Witness ==
    /\ Built
    /\ Len(model.propensities) = 2
    /\ Emitting = {2}
    /\ Len(flux_matrices.value) = 1
    /\ \E s \in Sources :
            Rate(2, s) > 0 /\ flux_matrices.value[1].value[Idx(s)][Idx(s)] = -Rate(2, s)

\* the cells of a matrix that received a contribution, the contributions of a
\* cell and their number
Cells(flux_matrix) ==
    {<<flux_matrix.entries[i].row, flux_matrix.entries[i].col>> :
        i \in 1..Len(flux_matrix.entries)}

CellEntries(flux_matrix, rc) ==
    {i \in 1..Len(flux_matrix.entries) :
        flux_matrix.entries[i].row = rc[1] /\ flux_matrix.entries[i].col = rc[2]}

RECURSIVE CellSum(_, _, _)
\* the sum of the first n contributions that fall into the cell rc
CellSum(flux_matrix, rc, n) ==
    IF n = 0 THEN 0
    ELSE CellSum(flux_matrix, rc, n - 1)
         + (IF n \in CellEntries(flux_matrix, rc) THEN flux_matrix.entries[n].data ELSE 0)

CellTotal(flux_matrix, rc) == CellSum(flux_matrix, rc, Len(flux_matrix.entries))

\* C25: in every emitted flux matrix the contributions that share a (row, col)
\* are merged into one stored entry whose value is their sum, and no zero is
\* stored, a sum that comes to zero included.
C25_MergedWithoutZeros ==
    Built =>
        \A i \in 1..Len(flux_matrices.value) :
            LET flux_matrix == flux_matrices.value[i]
            IN /\ DOMAIN flux_matrix.stored
                    = {rc \in Cells(flux_matrix) : CellTotal(flux_matrix, rc) # 0}
               /\ \A rc \in DOMAIN flux_matrix.stored :
                    /\ flux_matrix.stored[rc] = CellTotal(flux_matrix, rc)
                    /\ flux_matrix.stored[rc] # 0

\* C25 witness: a build with a cell whose two non-zero contributions cancel
\* and are not stored, and a cell whose two contributions are stored as their
\* non-zero sum
C25_Witness ==
    /\ Built
    /\ \E i \in 1..Len(flux_matrices.value) : \E rc \in Cells(flux_matrices.value[i]) :
        /\ Cardinality(CellEntries(flux_matrices.value[i], rc)) = 2
        /\ \A n \in CellEntries(flux_matrices.value[i], rc) :
                flux_matrices.value[i].entries[n].data # 0
        /\ rc \notin DOMAIN flux_matrices.value[i].stored
    /\ \E i \in 1..Len(flux_matrices.value) : \E rc \in DOMAIN flux_matrices.value[i].stored :
        /\ Cardinality(CellEntries(flux_matrices.value[i], rc)) = 2
        /\ flux_matrices.value[i].stored[rc] = 2

\* the rows the domain's map gives to the states of the domain
DomainRows == {Idx(s) : s \in Sources}

\* C28 (as claimed): in every emitted flux matrix, each +r entry that records
\* flux to a destination outside the domain lies in a row of an error
\* accumulator, at or after the number of domain states and within the slot
\* of its own tracker, never in a row the domain's map gives to a domain
\* state, whatever origin the tracker's index map was built with.
C28_LostFluxInAccumulatorRows ==
    Built =>
        \A k \in 1..Len(model.propensities) : \A s \in Sources :
            ValidOutside(Dest(k, s)) =>
                \A j \in 1..Len(error_trackers) :
                    LET row == ColumnEntries(MatrixOf(k), s)[1 + j].row
                    IN /\ row >= state_index_map.size
                       /\ row >= SlotBase(j)
                       /\ row < SlotBase(j) + error_trackers[j].error_index_map.size
                       /\ row \notin DomainRows

\* ------------------------------------------------ claims on create_diff_eqs
\* the matrix of reaction k applied to p; a reaction without any valid
\* destination has the zero matrix
ReactionFlux(k, p) ==
    IF HasValidDest(k) THEN MatVec(MatrixOf(k), p) ELSE [i \in DOMAIN p |-> 0]

RECURSIVE GeneratorTimes(_, _, _)
\* the sum over the first k reactions of phi_k(t) * M_k * p
GeneratorTimes(time, p, k) ==
    IF k = 0
    THEN [i \in DOMAIN p |-> 0]
    ELSE [i \in DOMAIN p |->
            GeneratorTimes(time, p, k - 1)[i]
            + Phi(time_dependencies[k], time) * ReactionFlux(k, p)[i]]

\* C13 (as claimed): diff_eqs(t, p) is A(t)*p with A(t) the sum over the
\* reactions k of phi_k(t) * M_k, phi_k being the coefficient supplied for
\* reaction k, in every model, also one with a reaction that has no valid
\* destination anywhere in the domain.
C13_PairsCoefficientWithItsReaction ==
    flux_pc = "applied" => p_dot = GeneratorTimes(de_t, de_p, Len(model.propensities))

\* ------------------------------------------------------- claims on compress
Compressed_ == cmp_pc = "done" /\ p_compressed.error = "none"

\* the mass of the entries of p over the states in keys
MassOver(p, keys) ==
    Accumulate([i \in 1..Len(from_mapping(p).states) |->
                    IF from_mapping(p).states[i] \in keys
                    THEN from_mapping(p).probabilities[i] ELSE 0],
               Len(from_mapping(p).states))

Retained == DOMAIN p_compressed.value

Removed == DOMAIN cmp_p \ Retained

\* the result is p restricted to some of its states
SubDistribution ==
    /\ Retained \subseteq DOMAIN cmp_p
    /\ \A s \in Retained : p_compressed.value[s] = cmp_p[s]

C15_RemovedReachesEpsilon ==
    Compressed_ =>
        /\ Retained \subseteq DOMAIN cmp_p
        /\ MassOver(cmp_p, DOMAIN cmp_p) >= cmp_epsilon
                => MassOver(cmp_p, Removed) >= cmp_epsilon
        /\ \A s \in Retained : MassOver(cmp_p, Removed) < cmp_p[s]

\* C15 (amended): the support of the result is within p's support; the mass
\* removed is strictly less than epsilon unless nothing is removed; and the
\* mass removed together with any one retained entry reaches epsilon.
C15_RemovedStaysBelowEpsilon ==
    Compressed_ =>
        /\ Retained \subseteq DOMAIN cmp_p
        /\ Removed # {} => MassOver(cmp_p, Removed) < cmp_epsilon
        /\ \A s \in Retained : MassOver(cmp_p, Removed) + cmp_p[s] >= cmp_epsilon

\* C15 witness: entries of positive mass are removed, others retained, and the
\* mass removed is above the smallest retained probability
C15_Witness ==
    /\ Compressed_
    /\ Retained # {}
    /\ MassOver(cmp_p, Removed) > 0
    /\ \E s \in Retained : MassOver(cmp_p, Removed) > cmp_p[s]

\* C16: for p with non-negative probabilities, compress(p, 0) returns p
\* unchanged: the same states, entries of probability zero aside, and the
\* same probability for each state.
C16_ZeroEpsilonIsIdentity ==
    (Compressed_ /\ cmp_epsilon = 0) =>
        /\ SubDistribution
        /\ \A s \in DOMAIN cmp_p : cmp_p[s] > 0 => s \in Retained

\* C16 witness: a distribution of three states with two distinct positive
\* probabilities and a zero entry, compressed with epsilon 0
C16_Witness ==
    /\ Compressed_
    /\ cmp_epsilon = 0
    /\ Cardinality(DOMAIN cmp_p) = 3
    /\ \E r, s, z \in DOMAIN cmp_p : 0 < cmp_p[r] /\ cmp_p[r] < cmp_p[s] /\ cmp_p[z] = 0
    /\ Retained = DOMAIN cmp_p

\* C17: compress fails with the invalid-epsilon error (ValueError) for every
\* epsilon below 0 or above 1 and every p, the empty one too, and returns
\* nothing then; it does not fail for an epsilon in [0, 1], and then the
\* empty distribution compresses to the empty distribution.
C17_EpsilonRange ==
    cmp_pc = "done" =>
        /\ (cmp_epsilon < 0 \/ cmp_epsilon > Whole) => p_compressed = Raise("ValueError")
        /\ (0 <= cmp_epsilon /\ cmp_epsilon <= Whole) => p_compressed.error = "none"
        /\ (0 <= cmp_epsilon /\ cmp_epsilon <= Whole /\ DOMAIN cmp_p = {})
                => p_compressed = Return(<<>>)

\* C17 witness: the empty distribution with an epsilon above 1 is refused
C17_Witness ==
    /\ cmp_pc = "done"
    /\ DOMAIN cmp_p = {}
    /\ cmp_epsilon > Whole
    /\ p_compressed = Raise("ValueError")

\* the ways to list the states of p in ascending order of probability
AscendingListings(p) ==
    {listing \in [1..Cardinality(DOMAIN p) -> DOMAIN p] :
        /\ \A i, j \in 1..Cardinality(DOMAIN p) : i # j => listing[i] # listing[j]
        /\ \A i, j \in 1..Cardinality(DOMAIN p) : i < j => p[listing[i]] <= p[listing[j]]}

RECURSIVE RunningSum(_, _, _)
\* the cumulative sum of p along a listing, up to and including entry i
RunningSum(p, listing, i) ==
    IF i = 0 THEN 0 ELSE RunningSum(p, listing, i - 1) + p[listing[i]]

\* C26: with the entries taken in ascending order of probability and a running
\* cumulative sum, compress(p, epsilon) drops an entry exactly when the
\* cumulative sum up to and including it is strictly less than epsilon and
\* retains every entry from the first one whose cumulative sum reaches or
\* exceeds epsilon; each retained state keeps its original probability.
C26_DropsWhileBelowEpsilon ==
    (Compressed_ /\ DOMAIN cmp_p # {}) =>
        /\ Retained \subseteq DOMAIN cmp_p
        /\ \A s \in Retained : p_compressed.value[s] = cmp_p[s]
        /\ \E listing \in AscendingListings(cmp_p) :
                /\ \A i \in DOMAIN listing :
                        listing[i] \in Removed
                            <=> RunningSum(cmp_p, listing, i) < cmp_epsilon
                /\ \A i, j \in DOMAIN listing :
                        (i <= j /\ RunningSum(cmp_p, listing, i) >= cmp_epsilon)
                            => listing[j] \in Retained

\* C26 witness: three entries of positive probability; the smallest is
\* dropped, the next one brings the cumulative sum to epsilon exactly and is
\* retained with the largest, each with its own probability
C26_Witness ==
    /\ Compressed_
    /\ Cardinality(DOMAIN cmp_p) = 3
    /\ Cardinality(Removed) = 1
    /\ \E a \in Removed : \E b, c \in Retained :
        /\ 0 < cmp_p[a]
        /\ cmp_p[a] <= cmp_p[b]
        /\ cmp_p[b] < cmp_p[c]
        /\ cmp_p[a] + cmp_p[b] = cmp_epsilon
        /\ p_compressed.value[b] = cmp_p[b]
        /\ p_compressed.value[c] = cmp_p[c]

\* ---------------------------------------------------------- claims on create
\* C18 (as claimed): create raises ValueError when domain_states is not given
\* and the model has no 'shape', ValueError when p_0 is not given and the model
\* has no initial state, and ValueError when a state of p_0's support is not in
\* the domain; no solver is returned in any of these cases.
C18_CreateRaisesValueError ==
    crt_pc = "done" =>
        /\ (~crt_domain_states.given /\ ~crt_model.shape.given)
                => cme_solver = Raise("ValueError")
        /\ (~crt_p_0.given /\ ~crt_model.initial_state.given)
                => cme_solver = Raise("ValueError")
        /\ (/\ crt_domain_states.given
            /\ crt_p_0.given
            /\ \E s \in DOMAIN crt_p_0.value : s \notin crt_domain_states.value)
                => cme_solver = Raise("ValueError")

====
